---- MODULE Spec2Model ----
(***************************************************************************)
(* Scrape orchestration and scheduling engine of the Jobright backend:     *)
(* the APScheduler-driven scheduler (app/services/job_scheduler.py), the   *)
(* manual trigger of the admin API (app/api/admin.py) and the scraper with *)
(* its rate limiter, request executor, deduplication and persistence       *)
(* (app/services/enhanced_job_scraper.py).                                 *)
(*                                                                         *)
(* Seven specifications share the module:                                  *)
(*   Spec       the scheduler: triggers, run instances, JobScrapingMetrics *)
(*   SpecRun    one scraper run after another: adapters, dedup,            *)
(*              persistence                                                *)
(*   SpecFetch  one adapter's requests: RateLimiter.acquire, _make_request *)
(*   SpecHealth the scheduler with its status view                         *)
(*   SpecHouse  the scheduler with its cleanup job                         *)
(*   SpecConfig the settings as loaded from the environment                *)
(*   SpecParse  one adapter call on one response                           *)
(***************************************************************************)
EXTENDS Integers, Sequences, FiniteSets, TLC

(***************************************************************************)
(* Bounds of the model.                                                    *)
(***************************************************************************)
MaxNow == 6           \* scheduling intervals that elapse in one behaviour
MaxJobs == 1          \* jobs one run can fetch in the scheduler specification
MaxTotal == 2         \* cap on the counter total_jobs_scraped
MaxRunNo == 2         \* runs of the scraper in one behaviour of SpecRun
MaxTarget == 2        \* largest total_jobs a run is asked for
MaxResp == 2          \* items in one response of a source
MaxNetId == 1         \* distinct ids the network sources serve
MaxCompanies == 1     \* companies in the Y Combinator listing
NumCallers == 1       \* coroutines calling _make_request on one scraper
RequestsPerMinute == 2 \* settings.RATE_LIMIT_REQUESTS_PER_MINUTE of the model
BurstSize == 1        \* settings.RATE_LIMIT_BURST_SIZE of the model
TicksPerToken == 2    \* clock ticks in which one token is refilled
MaxClock == 4         \* clock values of SpecFetch
MaxCalls == 2         \* _make_request calls in one behaviour of SpecFetch
MaxElapsed == 2       \* time one run is followed while it awaits requests
MaxItemId == 2        \* distinct ids in the responses one adapter call parses

(***************************************************************************)
(* Program constants.                                                      *)
(***************************************************************************)
BreakerThreshold == 5 \* job_scheduler.py:128  consecutive_failures >= 5
WellfoundBase == 1000 \* enhanced_job_scraper.py:443  source_id=str(1000 + i)
OttaBase == 2000      \* enhanced_job_scraper.py:477  source_id=str(2000 + i)
MaxTries == 3         \* enhanced_job_scraper.py:211  max_tries=3
MaxTime == 60         \* enhanced_job_scraper.py:212  max_time=60 (seconds)
HealthIntervals == 2  \* job_scheduler.py:65  SCRAPING_INTERVAL_MINUTES * 2
HealthFailures == 3   \* job_scheduler.py:70  consecutive_failures < 3

VARIABLES
    \* ---- scheduler (job_scheduler.py, admin.py) ----
    SCRAPING_ENABLED,       \* settings.SCRAPING_ENABLED, fixed at load time
    scheduler_running,      \* AsyncIOScheduler.running
    initial_pending,        \* the one-off 'initial_scraping_task' is still due
    now,                    \* datetime.now(), in scheduling intervals elapsed
    last_run,               \* JobScrapingMetrics.last_run      (<<>> is None)
    last_success,           \* JobScrapingMetrics.last_success  (<<>> is None)
    consecutive_failures,   \* JobScrapingMetrics.consecutive_failures
    total_runs,             \* JobScrapingMetrics.total_runs
    total_jobs_scraped,     \* JobScrapingMetrics.total_jobs_scraped
    total_jobs_saved,       \* JobScrapingMetrics.total_jobs_saved
    task,                   \* the running instance of each job, by job id
    manual_status,          \* POST /scraping/manual: its answer, then how
                            \* the background task it started ended
    breaker_alerts,         \* breaker alerts sent since the breaker opened
    last_outcome,           \* what the last finished scheduled run did
    \* ---- one scraper run after another (enhanced_job_scraper.py) ----
    ENABLE,                 \* sources whose settings.ENABLE_* flag is true
    run_no,                 \* calls of scrape_all_sources so far
    run_pc,                 \* where scrape_all_sources stands
    jobs_per_source,        \* max(1, total_jobs // enabled_sources)
    tasks,                  \* the (source, coroutine) list, in creation order
    next_task,              \* index in tasks of the coroutine being awaited
    adapter,                \* state of each source's coroutine in this run
    adapter_jobs,           \* the local list 'jobs' of the running adapter
    yc_left,                \* companies the Y Combinator loop still visits
    scraped_job_hashes,     \* EnhancedJobScraper.scraped_job_hashes
    all_jobs,               \* scrape_all_sources' all_jobs
    results,                \* scrape_all_sources' results, per source
    fetch_errors,           \* sources that caught a fetch error in this run
    run_status,             \* how the last call of scrape_all_sources ended
    accepted_before,        \* hashes of the jobs earlier runs handed to
                            \* _save_jobs_to_database
    dup_rejected,           \* _is_duplicate_job answered True in this run
    \* ---- one scraper's requests (RateLimiter, _make_request) ----
    clock,                  \* time.time(), in ticks
    tokens,                 \* RateLimiter.tokens, in 1/TicksPerToken tokens
    last_update,            \* RateLimiter.last_update
    lock_queue,             \* RateLimiter.lock: its holder, then its waiters
    wake_at,                \* when the sleep inside acquire() is over
    req,                    \* each caller's _make_request call
    calls,                  \* _make_request calls begun so far
    acquired,               \* acquire() calls that have returned so far
    response,               \* the ClientResponse each caller's last
                            \* _make_request call returned: "none", "released",
                            \* then how reading its body went
    \* ---- settings read at load time (config.py) ----
    SCRAPING_INTERVAL_MINUTES,  \* settings.SCRAPING_INTERVAL_MINUTES
    SCRAPING_MAX_JOBS_PER_RUN,  \* settings.SCRAPING_MAX_JOBS_PER_RUN
    requests_per_minute,    \* RateLimiter.requests_per_minute: 0, or the
                            \* positive rate at which a token takes
                            \* TicksPerToken ticks
    \* ---- housekeeping (job_scheduler.py) ----
    cleanup_task,           \* the running instance of 'job_cleanup_task':
                            \* "idle", or the await it is suspended in
    \* ---- one adapter call on one response ----
    parse_in,               \* the call: source, limit, the response's items
                            \* and scraped_job_hashes as it finds them
    parse_out,              \* the list the adapter returned (<<>> is: not yet)
    \* ---- observers ----
    status_is_healthy,      \* 'is_healthy' of the get_status() answer being
                            \* delivered ("none": no call under way)
    db_status,              \* how _save_jobs_to_database went in the last run
    db_persisted,           \* Job rows the last run's session committed
    run_elapsed             \* time the current run has spent awaiting
                            \* requests

schedVars == <<SCRAPING_ENABLED, scheduler_running, initial_pending, now,
               last_run, last_success, consecutive_failures, total_runs,
               total_jobs_scraped, total_jobs_saved, task, manual_status,
               breaker_alerts, last_outcome>>

runVars == <<ENABLE, run_no, run_pc, jobs_per_source, tasks, next_task,
             adapter, adapter_jobs, yc_left, scraped_job_hashes, all_jobs,
             results, fetch_errors, run_status, accepted_before, dup_rejected>>

fetchVars == <<clock, tokens, last_update, lock_queue, wake_at, req, calls,
               acquired, response>>

confVars == <<SCRAPING_INTERVAL_MINUTES, SCRAPING_MAX_JOBS_PER_RUN,
              requests_per_minute>>

healthVars == <<status_is_healthy>>

houseVars == <<cleanup_task>>

parseVars == <<parse_in, parse_out>>

runObs == <<db_status, db_persisted, run_elapsed>>

vars == <<schedVars, runVars, fetchVars, confVars, healthVars, runObs,
          houseVars, parseVars>>

None == << >>
Some(x) == <<x>>

Min(a, b) == IF a <= b THEN a ELSE b
Max(a, b) == IF a >= b THEN a ELSE b

\* All sequences over S of length at most n.
SeqsUpTo(S, n) == UNION {[1..k -> S] : k \in 0..n}

\* seq[:n]
Take(seq, n) == SubSeq(seq, 1, Min(n, Len(seq)))

(***************************************************************************)
(* Sources and jobs.                                                       *)
(***************************************************************************)
\* The four sources scrape_all_sources knows, in the order it creates and
\* awaits their coroutines.
SourceOrder == <<"RemoteOK", "Y Combinator", "Wellfound", "Otta">>
Sources == {SourceOrder[i] : i \in DOMAIN SourceOrder}

\* RemoteOK and Y Combinator go through _make_request; Wellfound and Otta
\* generate sample data without any request.
NetworkSources == {"RemoteOK", "Y Combinator"}
SampleSources == {"Wellfound", "Otta"}

\* JobSource
SourceValue(s) ==
    CASE s = "RemoteOK" -> "remoteok"
      [] s = "Y Combinator" -> "ycombinator"
      [] s = "Wellfound" -> "wellfound"
      [] s = "Otta" -> "otta"

\* Titles and companies the sources serve; "Dev" and "dev" differ by case only.
Titles == {"Dev", "dev"}
Companies == {"Acme"}

\* str.lower()
Lower(str) ==
    CASE str = "Dev" -> "dev"
      [] str = "Acme" -> "acme"
      [] OTHER -> str

\* JobData, the fields deduplication and persistence read.
JobsOf(s, ids) ==
    [title : Titles, company : Companies, source_id : ids,
     source : {SourceValue(s)}]

\* _generate_job_hash (below) without the lowering of title and company:
\* JobHash_cased.
\*
\* _generate_job_hash: md5 of "lower(title)-lower(company)-source_id".  No
\* title or company of the model holds a "-", so the joined string and the
\* triple determine each other; md5 is taken to be injective on them.
JobHash_cased(job) == <<job.title, job.company, job.source_id>>

JobHash(job) == <<Lower(job.title), Lower(job.company), job.source_id>>

\* _is_duplicate_job, its answer
IsDuplicateJob(hashes, job) == JobHash(job) \in hashes

\* _is_duplicate_job forgetting to add the hash.
Remember_forget(hashes, job) == hashes

\* _is_duplicate_job, scraped_job_hashes after a call that answered False
Remember(hashes, job) == hashes \cup {JobHash(job)}

\* The adapters' loop "if not self._is_duplicate_job(job_data):
\* jobs.append(job_data)" over the items of one response.
RECURSIVE FilterNew(_, _)
FilterNew(items, hashes) ==
    IF items = << >>
      THEN [jobs |-> << >>, hashes |-> hashes, dup |-> FALSE]
      ELSE LET job == Head(items)
               isdup == IsDuplicateJob(hashes, job)
               rest == FilterNew(Tail(items),
                                 IF isdup THEN hashes
                                          ELSE Remember(hashes, job))
           IN [jobs |-> IF isdup THEN rest.jobs ELSE <<job>> \o rest.jobs,
               hashes |-> rest.hashes,
               dup |-> isdup \/ rest.dup]

\* What a network source can answer: up to MaxResp jobs with ids 1..MaxNetId.
Responses(s) == SeqsUpTo(JobsOf(s, 1..MaxNetId), MaxResp)

\* An item of a response that cannot be turned into a JobData: building it
\* raises (an item that is no dictionary, a title that is null, ...).
Malformed == [malformed |-> TRUE]
WellFormed(item) == item # Malformed

\* scrape_remoteok_jobs, the loop over job_listings (lines 270-294): each
\* item is built inside its own try, and one that raises is skipped.
ParseRemoteOK(items) == SelectSeq(items, WellFormed)

\* scrape_ycombinator_jobs, the loop over one company's jobs (lines 330-349):
\* the try around it (lines 326-353) holds the request and the whole loop, so
\* the first item that raises ends the loop, and the adapter goes on to the
\* next company with the jobs built before it.
ParseYCombinator(items) ==
    LET bad == {i \in DOMAIN items : ~WellFormed(items[i])}
    IN IF bad = {} THEN items
       ELSE SubSeq(items, 1, (CHOOSE i \in bad : \A k \in bad : i <= k) - 1)

\* scrape_remoteok_jobs on the listing `data` (without its first item, the
\* legal notice): data[1:limit+1], built item by item, duplicates left out.
RemoteOKJobs(data, limit, hashes) ==
    FilterNew(ParseRemoteOK(Take(data, limit)), hashes)

\* scrape_ycombinator_jobs on the jobs of one company: every item, with no
\* limit, up to the first that raises, duplicates left out.
YCombinatorJobs(data, hashes) == FilterNew(ParseYCombinator(data), hashes)

\* _generate_wellfound_sample_jobs, _generate_otta_sample_jobs: limit jobs,
\* the i-th (from 0) with source_id base + i and a random title and company.
SampleBase(s) == IF s = "Wellfound" THEN WellfoundBase ELSE OttaBase
SampleLists(s, limit) ==
    {l \in [1..limit -> JobsOf(s, SampleBase(s)..(SampleBase(s) + limit - 1))] :
        \A i \in 1..limit : l[i].source_id = SampleBase(s) + i - 1}

\* The hashes of a list of jobs.
Hashes(jobs) == {JobHash(jobs[i]) : i \in DOMAIN jobs}

(***************************************************************************)
(* The scheduler.                                                          *)
(***************************************************************************)
IntervalJob == "job_scraping_task"
InitialJob == "initial_scraping_task"
ManualJob == "manual"
ScheduledJobs == {IntervalJob, InitialJob}
JobIds == ScheduledJobs \cup {ManualJob}

\* What scrape_all_sources hands back when it returns: the size of all_jobs,
\* the count _save_jobs_to_database returned, whether some adapter caught a
\* fetch error (and returned []), and how the persistence step went:
\*   "skipped"        no jobs, the database is not touched (line 651)
\*   "committed"      db.commit() succeeded
\*   "commit_failed"  db.commit() raised; caught at line 714, saved_count is
\*                    returned all the same
RunResults ==
    {r \in [scraped : 0..MaxJobs, saved : 0..MaxJobs, errors : BOOLEAN,
            persist : {"skipped", "committed", "commit_failed"}] :
        /\ r.saved <= r.scraped
        /\ (r.scraped = 0) <=> (r.persist = "skipped")}

\* scrape_all_sources raising instead: the aiohttp session cannot be opened or
\* closed (lines 589, 175), no persistence attempted; or SessionLocal() raises
\* at line 654, outside the try, with jobs fetched.
RunFailures ==
    {r \in [scraped : 0..MaxJobs, saved : {0}, errors : BOOLEAN,
            persist : {"skipped", "session_failed"}] :
        (r.persist = "session_failed") => r.scraped > 0}

\* The breaker check with the comparison off by one.
BreakerOpen_late(cf) == cf > BreakerThreshold

\* The circuit breaker check of scrape_jobs_task.
BreakerOpen(cf) == cf >= BreakerThreshold

\* No scheduler: the scheduler's state as constructed, left alone.
SchedIdle ==
    /\ scheduler_running = FALSE
    /\ initial_pending = FALSE
    /\ now = 0
    /\ last_run = None
    /\ last_success = None
    /\ consecutive_failures = 0
    /\ total_runs = 0
    /\ total_jobs_scraped = 0
    /\ total_jobs_saved = 0
    /\ task = [j \in JobIds |-> "idle"]
    /\ manual_status = "none"
    /\ breaker_alerts = 0
    /\ last_outcome = [recorded |-> "none", scraped |-> 0,
                       errors |-> FALSE, persist |-> "skipped"]
    /\ status_is_healthy = "none"
    /\ cleanup_task = "idle"

\* No scraper run in detail: the run's state before any run.
RunIdle ==
    /\ run_no = 0
    /\ run_pc = "idle"
    /\ jobs_per_source = 0
    /\ tasks = << >>
    /\ next_task = 0
    /\ adapter = [s \in Sources |-> "none"]
    /\ adapter_jobs = << >>
    /\ yc_left = 0
    /\ scraped_job_hashes = {}
    /\ all_jobs = << >>
    /\ results = << >>
    /\ fetch_errors = {}
    /\ run_status = "none"
    /\ accepted_before = {}
    /\ dup_rejected = FALSE
    /\ db_status = "none"
    /\ db_persisted = 0
    /\ run_elapsed = 0

\* No adapter call in detail.
ParseIdle ==
    /\ parse_in = << >>
    /\ parse_out = << >>

\* No request in detail: the limiter and the requests are not followed.
FetchIdle ==
    /\ clock = 0
    /\ tokens = 0
    /\ last_update = 0
    /\ lock_queue = << >>
    /\ wake_at = 0
    /\ req = << >>
    /\ calls = 0
    /\ acquired = 0
    /\ response = << >>
    /\ requests_per_minute = RequestsPerMinute

\* The defaults of config.py for the schedule.
DefaultSchedule ==
    /\ SCRAPING_INTERVAL_MINUTES = 60
    /\ SCRAPING_MAX_JOBS_PER_RUN = 200

InitSched ==
    /\ SCRAPING_ENABLED \in BOOLEAN
    /\ DefaultSchedule
    /\ SchedIdle
    /\ ENABLE = Sources
    /\ RunIdle
    /\ ParseIdle
    /\ FetchIdle

\* JobScrapingScheduler.start
Start ==
    /\ ~scheduler_running
    /\ SCRAPING_ENABLED
    /\ scheduler_running' = TRUE
    /\ initial_pending' = TRUE
    /\ UNCHANGED <<SCRAPING_ENABLED, now, last_run, last_success,
                   consecutive_failures, total_runs, total_jobs_scraped,
                   total_jobs_saved, task, manual_status, breaker_alerts,
                   last_outcome>>
    /\ UNCHANGED <<runVars, fetchVars, confVars, healthVars, runObs, houseVars, parseVars>>

\* scrape_jobs_task up to its first suspension: record_run_start, the two
\* checks, and the call of run_enhanced_job_scraper.
\* record_run_start moved behind the two checks: a skipped trigger leaves no
\* trace in the metrics.
ScrapeJobsTaskBegin_skip_unrecorded(j, at) ==
    /\ IF ~SCRAPING_ENABLED
         THEN UNCHANGED <<task, breaker_alerts, last_run, total_runs>>
         ELSE IF BreakerOpen(consecutive_failures)
           THEN /\ breaker_alerts' = breaker_alerts + 1
                /\ UNCHANGED <<task, last_run, total_runs>>
           ELSE /\ task' = [task EXCEPT ![j] = "run"]
                /\ last_run' = Some(at)
                /\ total_runs' = total_runs + 1
                /\ UNCHANGED breaker_alerts
    /\ UNCHANGED <<SCRAPING_ENABLED, scheduler_running, last_success,
                   consecutive_failures, total_jobs_scraped, total_jobs_saved,
                   manual_status, last_outcome>>

ScrapeJobsTaskBegin(j, at) ==
    /\ last_run' = Some(at)
    /\ total_runs' = total_runs + 1
    /\ IF ~SCRAPING_ENABLED
         THEN UNCHANGED <<task, breaker_alerts>>
         ELSE IF BreakerOpen(consecutive_failures)
           THEN /\ breaker_alerts' = breaker_alerts + 1
                /\ UNCHANGED task
           ELSE /\ task' = [task EXCEPT ![j] = "run"]
                /\ UNCHANGED breaker_alerts
    /\ UNCHANGED <<SCRAPING_ENABLED, scheduler_running, last_success,
                   consecutive_failures, total_jobs_scraped, total_jobs_saved,
                   manual_status, last_outcome>>

\* The IntervalTrigger fires, one interval after its last firing.
\* max_instances=1: while an instance of this job runs, the scheduler skips
\* the firing and nothing is queued.
IntervalTrigger ==
    /\ scheduler_running
    /\ now < MaxNow
    /\ now' = now + 1
    /\ IF task[IntervalJob] = "idle"
         THEN ScrapeJobsTaskBegin(IntervalJob, now + 1)
         ELSE UNCHANGED <<SCRAPING_ENABLED, scheduler_running, last_run,
                          last_success, consecutive_failures, total_runs,
                          total_jobs_scraped, total_jobs_saved, task,
                          manual_status, breaker_alerts, last_outcome>>
    /\ UNCHANGED initial_pending
    /\ UNCHANGED <<runVars, fetchVars, confVars, healthVars, runObs, houseVars, parseVars>>

\* The 'date' trigger of the initial run fires, once, 30 seconds after start
\* (before the first interval has elapsed); it is a job of its own, with its
\* own instance count.
InitialTrigger ==
    /\ scheduler_running
    /\ initial_pending
    /\ now = 0
    /\ initial_pending' = FALSE
    /\ UNCHANGED now
    /\ ScrapeJobsTaskBegin(InitialJob, now)
    /\ UNCHANGED <<runVars, fetchVars, confVars, healthVars, runObs, houseVars, parseVars>>

\* _send_notification (below) without its try/except.
SendNotification_uncaught(outcome) == outcome

\* _send_notification, and _send_alert through it: how the call ends when the
\* Slack or e-mail delivery ends by `outcome`; an exception of the delivery is
\* caught and logged (lines 173-174).
SendNotification(outcome) ==
    IF outcome = "raised" THEN "returned" ELSE outcome

\* Whether an exception can leave _send_alert, whatever the delivery does.
AlertEscapes ==
    \E delivery \in {"returned", "raised"} :
        SendNotification(delivery) = "raised"

\* job_listener, on the event APScheduler emits when a job's task is over:
\* an exception that left the task is recorded as a failure.
JobListener(cf, exception) == IF exception THEN cf + 1 ELSE cf

\* Whether the success notification of a run that saved `saved` jobs (sent
\* inside the try, line 151, when total_saved > 0) ends by an exception.
NotificationEscapes(saved) == saved > 0 /\ AlertEscapes

\* run_enhanced_job_scraper returned: record_run_success, then the success
\* notification.  An exception leaving the notification would reach the except
\* branch: record_run_failure and the alert, then the job's event.
ScheduledRunReturns(j) ==
    /\ task[j] = "run"
    /\ \E r \in RunResults :
         /\ total_jobs_scraped + r.scraped <= MaxTotal
         /\ last_success' = Some(now)
         /\ consecutive_failures' =
                IF NotificationEscapes(r.saved)
                  THEN JobListener(0 + 1, AlertEscapes)
                  ELSE 0
         /\ total_jobs_scraped' = total_jobs_scraped + r.scraped
         /\ total_jobs_saved' = total_jobs_saved + r.saved
         /\ last_outcome' = [recorded |-> IF NotificationEscapes(r.saved)
                                           THEN "failure" ELSE "success",
                             scraped |-> r.scraped,
                             errors |-> r.errors, persist |-> r.persist]
    /\ breaker_alerts' = 0
    /\ task' = [task EXCEPT ![j] = "idle"]
    /\ UNCHANGED <<SCRAPING_ENABLED, scheduler_running, initial_pending, now,
                   last_run, total_runs, manual_status>>
    /\ UNCHANGED <<runVars, fetchVars, confVars, healthVars, runObs, houseVars, parseVars>>

\* run_enhanced_job_scraper raised: the except branch, record_run_failure and
\* the alert, then the job's event.
ScheduledRunRaises(j) ==
    /\ task[j] = "run"
    /\ \E r \in RunFailures :
         last_outcome' = [recorded |-> "failure", scraped |-> r.scraped,
                          errors |-> r.errors, persist |-> r.persist]
    /\ consecutive_failures' = JobListener(consecutive_failures + 1, AlertEscapes)
    /\ task' = [task EXCEPT ![j] = "idle"]
    /\ UNCHANGED <<SCRAPING_ENABLED, scheduler_running, initial_pending, now,
                   last_run, last_success, total_runs, total_jobs_scraped,
                   total_jobs_saved, manual_status, breaker_alerts>>
    /\ UNCHANGED <<runVars, fetchVars, confVars, healthVars, runObs, houseVars, parseVars>>

\* JobScrapingMetrics as one record.
Metrics ==
    [last_run |-> last_run, last_success |-> last_success,
     consecutive_failures |-> consecutive_failures, total_runs |-> total_runs,
     total_jobs_scraped |-> total_jobs_scraped,
     total_jobs_saved |-> total_jobs_saved]

\* dict.get(key, default)
DictGet(d, key, default) == IF key \in DOMAIN d THEN d[key] ELSE default

\* record_run_start at time t
RecordRunStart(m, t) ==
    [m EXCEPT !.last_run = Some(t), !.total_runs = @ + 1]

\* scrape_jobs_task (below) taking a result without counts for a failed run.
ScrapeJobsTaskRecords_empty_fails(m, status, res, t) ==
    IF status = "returned" /\ "total_scraped" \in DOMAIN res
      THEN [m EXCEPT !.last_success = Some(t),
                     !.consecutive_failures = 0,
                     !.total_jobs_scraped = @ + res["total_scraped"],
                     !.total_jobs_saved = @ + DictGet(res, "total_saved", 0)]
      ELSE [m EXCEPT !.consecutive_failures = @ + 1]

\* scrape_jobs_task after run_enhanced_job_scraper (lines 134-159), on the
\* metrics m at time t: the run returned the dictionary res, and
\* record_run_success takes its two totals, 0 where the key is missing; or
\* the run raised, and record_run_failure counts it.
ScrapeJobsTaskRecords(m, status, res, t) ==
    IF status = "returned"
      THEN [m EXCEPT !.last_success = Some(t),
                     !.consecutive_failures = 0,
                     !.total_jobs_scraped = @ + DictGet(res, "total_scraped", 0),
                     !.total_jobs_saved = @ + DictGet(res, "total_saved", 0)]
      ELSE [m EXCEPT !.consecutive_failures = @ + 1]

\* POST /scraping/manual
ManualTrigger ==
    /\ task[ManualJob] = "idle"
    /\ IF ~SCRAPING_ENABLED
         THEN /\ manual_status' = "rejected"
              /\ manual_status # "rejected"
              /\ UNCHANGED task
         ELSE /\ manual_status' = "started"
              /\ task' = [task EXCEPT ![ManualJob] = "run"]
    /\ UNCHANGED <<SCRAPING_ENABLED, scheduler_running, initial_pending, now,
                   last_run, last_success, consecutive_failures, total_runs,
                   total_jobs_scraped, total_jobs_saved, breaker_alerts,
                   last_outcome>>
    /\ UNCHANGED <<runVars, fetchVars, confVars, healthVars, runObs, houseVars, parseVars>>

\* The background task of a manual trigger ends, by return or by exception;
\* nothing reads its result.
ManualRunEnds ==
    /\ task[ManualJob] = "run"
    /\ \E outcome \in {"returned", "raised"} :
         manual_status' = outcome
    /\ task' = [task EXCEPT ![ManualJob] = "idle"]
    /\ UNCHANGED <<SCRAPING_ENABLED, scheduler_running, initial_pending, now,
                   last_run, last_success, consecutive_failures, total_runs,
                   total_jobs_scraped, total_jobs_saved, breaker_alerts,
                   last_outcome>>
    /\ UNCHANGED <<runVars, fetchVars, confVars, healthVars, runObs, houseVars, parseVars>>

NextSched ==
    \/ Start
    \/ IntervalTrigger
    \/ InitialTrigger
    \/ \E j \in ScheduledJobs : ScheduledRunReturns(j)
    \/ \E j \in ScheduledJobs : ScheduledRunRaises(j)
    \/ ManualTrigger
    \/ ManualRunEnds

Spec == InitSched /\ [][NextSched]_vars

(***************************************************************************)
(* The scheduler's metrics as the status calls read them:                  *)
(* JobScrapingMetrics.is_healthy through get_status.                       *)
(***************************************************************************)
\* is_healthy (below) looking at the failures only.
IsHealthy_failures_only(lr, ls, cf, t) == cf < HealthFailures

\* JobScrapingMetrics.is_healthy, with last_run lr, last_success ls,
\* consecutive_failures cf, at time t (in scheduling intervals).
IsHealthy(lr, ls, cf, t) ==
    IF lr = None
      THEN FALSE
      ELSE IF ls # None /\ t - ls[1] <= HealthIntervals
        THEN TRUE
        ELSE cf < HealthFailures

InitHealth ==
    /\ SCRAPING_ENABLED \in BOOLEAN
    /\ DefaultSchedule
    /\ SchedIdle
    /\ ENABLE = Sources
    /\ RunIdle
    /\ ParseIdle
    /\ FetchIdle

\* JobScrapingMetrics.get_status is called (by the scheduler's get_status for
\* the admin API, or by health_check_task): 'is_healthy' is computed.
GetStatus ==
    /\ status_is_healthy = "none"
    /\ status_is_healthy' =
         IF IsHealthy(last_run, last_success, consecutive_failures, now)
           THEN "healthy" ELSE "unhealthy"
    /\ UNCHANGED <<schedVars, runVars, fetchVars, confVars, runObs, houseVars, parseVars>>

\* The status has been delivered.
StatusDelivered ==
    /\ status_is_healthy # "none"
    /\ status_is_healthy' = "none"
    /\ UNCHANGED <<schedVars, runVars, fetchVars, confVars, runObs, houseVars, parseVars>>

\* JobScrapingScheduler.get_status, the fields of its answer that tell the
\* scheduler's state: 'scheduler_running', the ids of the jobs listed with a
\* next run (every job added by start(); the one-off initial job is gone once
\* it has fired), and of 'metrics' the failures and 'is_healthy'.
SchedulerStatus ==
    [scheduler_running |-> scheduler_running,
     jobs |-> IF scheduler_running
                THEN {IntervalJob} \cup (IF initial_pending THEN {InitialJob}
                                                            ELSE {})
                ELSE {},
     metrics |-> [consecutive_failures |-> consecutive_failures,
                  total_runs |-> total_runs,
                  is_healthy |-> IsHealthy(last_run, last_success,
                                           consecutive_failures, now)]]

NextHealth ==
    \/ Start
    \/ IntervalTrigger
    \/ InitialTrigger
    \/ \E j \in ScheduledJobs : ScheduledRunReturns(j)
    \/ \E j \in ScheduledJobs : ScheduledRunRaises(j)
    \/ GetStatus
    \/ StatusDelivered

SpecHealth == InitHealth /\ [][NextHealth]_vars

(***************************************************************************)
(* Housekeeping: the cleanup job next to the scraping jobs.                *)
(*                                                                         *)
(* start() adds 'job_cleanup_task' with a cron trigger of its own (daily   *)
(* at 2 AM) and max_instances=1; job_listener is registered for the events *)
(* of every job of the scheduler, this one included.                       *)
(***************************************************************************)
InitHouse ==
    /\ SCRAPING_ENABLED \in BOOLEAN
    /\ DefaultSchedule
    /\ SchedIdle
    /\ ENABLE = Sources
    /\ RunIdle
    /\ ParseIdle
    /\ FetchIdle

\* cleanup_old_jobs (below) without its try/except.
CleanupOldJobs_uncaught(outcome) ==
    IF outcome = "failed" THEN "raised" ELSE "returned"

\* cleanup_old_jobs, how the coroutine ends when its database work ends by
\* `outcome`: an exception of the session, the delete or the commit is caught
\* at line 323 and answered with _send_alert; only an exception leaving
\* _send_alert would leave the task.
CleanupOldJobs(outcome) ==
    IF outcome = "failed" /\ AlertEscapes THEN "raised" ELSE "returned"

\* The cron trigger of the cleanup job fires: with no instance of the job
\* running, cleanup_old_jobs starts.  Its database work is synchronous, so it
\* runs at once up to its first await: the notification after a cleanup that
\* deleted jobs (line 318), or the alert after one that failed (line 325).
CleanupTrigger ==
    /\ scheduler_running
    /\ cleanup_task = "idle"
    /\ \E outcome \in {"done", "failed"} :
         cleanup_task' = IF outcome = "failed" THEN "alert" ELSE "notify"
    /\ UNCHANGED <<schedVars, runVars, fetchVars, confVars, healthVars, runObs, parseVars>>

\* cleanup_old_jobs is over; then the job's event reaches job_listener.
CleanupEnds ==
    /\ cleanup_task # "idle"
    /\ consecutive_failures' =
           JobListener(consecutive_failures,
                       CleanupOldJobs(IF cleanup_task = "alert"
                                        THEN "failed" ELSE "done") = "raised")
    /\ cleanup_task' = "idle"
    /\ UNCHANGED <<SCRAPING_ENABLED, scheduler_running, initial_pending, now,
                   last_run, last_success, total_runs, total_jobs_scraped,
                   total_jobs_saved, task, manual_status, breaker_alerts,
                   last_outcome>>
    /\ UNCHANGED <<runVars, fetchVars, confVars, healthVars, runObs, parseVars>>

NextHouse ==
    \/ Start
    \/ IntervalTrigger
    \/ InitialTrigger
    \/ \E j \in ScheduledJobs : ScheduledRunReturns(j)
    \/ \E j \in ScheduledJobs : ScheduledRunRaises(j)
    \/ CleanupTrigger
    \/ CleanupEnds

SpecHouse == InitHouse /\ [][NextHouse]_vars

(***************************************************************************)
(* Settings: the schedule's values as the environment supplies them.       *)
(*                                                                         *)
(* Settings reads each value with int(os.getenv(name, default)) when the   *)
(* class body is evaluated; the fields are plain ints, with no validator   *)
(* and no range.  EnvIntervals and EnvMaxJobs are the integers the         *)
(* environment supplies here, the defaults among them.                     *)
(***************************************************************************)
EnvIntervals == {1, 60}
EnvMaxJobs == {5, 200}

\* Settings(): every integer the environment supplies is taken as it is.
InitConfig ==
    /\ SCRAPING_ENABLED \in BOOLEAN
    /\ SCRAPING_INTERVAL_MINUTES \in EnvIntervals
    /\ SCRAPING_MAX_JOBS_PER_RUN \in EnvMaxJobs
    /\ SchedIdle
    /\ ENABLE = Sources
    /\ RunIdle
    /\ ParseIdle
    /\ FetchIdle

\* The scheduler with the settings it was given: start() reads only
\* SCRAPING_ENABLED before it adds the interval job.
NextConfig ==
    \/ Start
    \/ IntervalTrigger
    \/ InitialTrigger
    \/ \E j \in ScheduledJobs : ScheduledRunReturns(j)
    \/ \E j \in ScheduledJobs : ScheduledRunRaises(j)

SpecConfig == InitConfig /\ [][NextConfig]_vars

(***************************************************************************)
(* One scraper run after another: JobDataManager.scrape_all_sources.       *)
(***************************************************************************)
InitRun ==
    /\ SCRAPING_ENABLED \in BOOLEAN
    /\ DefaultSchedule
    /\ SchedIdle
    /\ ENABLE \in SUBSET Sources
    /\ RunIdle
    /\ ParseIdle
    /\ FetchIdle

\* The locals of scrape_all_sources and the scraper are gone on return.
RunOver(status, res) ==
    /\ run_pc' = "idle"
    /\ run_status' = status
    /\ results' = res
    /\ jobs_per_source' = 0
    /\ tasks' = << >>
    /\ next_task' = 0
    /\ adapter' = [s \in Sources |-> "none"]
    /\ adapter_jobs' = << >>
    /\ yc_left' = 0
    /\ all_jobs' = << >>

\* scrape_all_sources from its call to the first await (lines 580-630): a new
\* EnhancedJobScraper, hence a new, empty scraped_job_hashes; one coroutine
\* object per enabled source, none of them started.
ScrapeAllSources ==
    /\ run_pc = "idle"
    /\ run_no < MaxRunNo
    /\ run_no' = run_no + 1
    /\ fetch_errors' = {}
    /\ dup_rejected' = FALSE
    /\ \E total_jobs \in 1..MaxTarget :
         IF ~SCRAPING_ENABLED
           THEN /\ RunOver("returned", << >>)
                /\ UNCHANGED scraped_job_hashes
           ELSE /\ scraped_job_hashes' = {}
                /\ IF ENABLE = {}
                     THEN RunOver("returned", << >>)
                     ELSE /\ jobs_per_source' =
                                Max(1, total_jobs \div Cardinality(ENABLE))
                          /\ tasks' = SelectSeq(SourceOrder,
                                                LAMBDA s : s \in ENABLE)
                          /\ next_task' = 1
                          /\ adapter' = [s \in Sources |->
                                IF s \in ENABLE THEN "created" ELSE "none"]
                          /\ run_pc' = "await"
                          /\ run_status' = "running"
                          /\ results' = << >>
                          /\ UNCHANGED <<adapter_jobs, yc_left, all_jobs>>
    /\ UNCHANGED <<ENABLE, accepted_before>>
    /\ db_status' = "none"
    /\ db_persisted' = 0
    /\ run_elapsed' = 0
    /\ UNCHANGED <<schedVars, fetchVars, confVars, healthVars, houseVars, parseVars>>

\* "jobs = await task" returning (lines 634-637): the adapter's list joins
\* all_jobs, and the loop goes on to await the next coroutine, or ends.
AdapterReturns(s, jobs) ==
    /\ all_jobs' = all_jobs \o jobs
    /\ results' = [k \in DOMAIN results \cup {s} |->
                     IF k = s THEN Len(jobs) ELSE results[k]]
    /\ adapter' = [adapter EXCEPT ![s] = "done"]
    /\ adapter_jobs' = << >>
    /\ yc_left' = 0
    /\ next_task' = next_task + 1
    /\ run_pc' = IF next_task = Len(tasks) THEN "save" ELSE "await"

\* The adapter's outer "except Exception" (below) cancelling the run's
\* results so far instead.
AdapterFails_cancels(s) ==
    /\ all_jobs' = << >>
    /\ results' = [k \in DOMAIN results \cup {s} |-> 0]
    /\ adapter' = [adapter EXCEPT ![s] = "done"]
    /\ adapter_jobs' = << >>
    /\ yc_left' = 0
    /\ next_task' = next_task + 1
    /\ run_pc' = IF next_task = Len(tasks) THEN "save" ELSE "await"

\* A fetch error inside an adapter: its outer "except Exception" logs it and
\* the adapter returns the list it has, which is empty (lines 298-301, 361-364).
AdapterFails(s) == AdapterReturns(s, << >>)

\* "await task" on a network source's coroutine: it starts now and suspends in
\* its first _make_request.
NetworkAdapterBegins ==
    /\ run_pc = "await"
    /\ tasks[next_task] \in NetworkSources
    /\ adapter[tasks[next_task]] = "created"
    /\ adapter' = [adapter EXCEPT ![tasks[next_task]] = "request"]
    /\ UNCHANGED <<ENABLE, run_no, run_pc, jobs_per_source, tasks, next_task,
                   adapter_jobs, yc_left, scraped_job_hashes, all_jobs,
                   results, fetch_errors, run_status, accepted_before,
                   dup_rejected>>
    /\ UNCHANGED runObs
    /\ UNCHANGED <<schedVars, fetchVars, confVars, healthVars, houseVars, parseVars>>

\* "await task" on scrape_wellfound_jobs or scrape_otta_jobs: no await inside,
\* the coroutine runs to its return at once.
SampleAdapterRuns ==
    /\ run_pc = "await"
    /\ tasks[next_task] \in SampleSources
    /\ adapter[tasks[next_task]] = "created"
    /\ \E l \in SampleLists(tasks[next_task], jobs_per_source) :
         LET f == FilterNew(l, scraped_job_hashes)
         IN /\ scraped_job_hashes' = f.hashes
            /\ dup_rejected' = (dup_rejected \/ f.dup)
            /\ AdapterReturns(tasks[next_task], f.jobs)
    /\ UNCHANGED <<ENABLE, run_no, jobs_per_source, tasks, fetch_errors,
                   run_status, accepted_before>>
    /\ UNCHANGED runObs
    /\ UNCHANGED <<schedVars, fetchVars, confVars, healthVars, houseVars, parseVars>>

\* scrape_remoteok_jobs after its request: the request or response.json()
\* raised, caught at line 298, [] is returned; or the listing's first
\* `limit` items are turned into jobs.
RemoteOKAnswers ==
    /\ adapter["RemoteOK"] = "request"
    /\ \/ /\ fetch_errors' = fetch_errors \cup {"RemoteOK"}
          /\ AdapterFails("RemoteOK")
          /\ UNCHANGED <<scraped_job_hashes, dup_rejected>>
       \/ \E data \in Responses("RemoteOK") :
            LET f == RemoteOKJobs(data, jobs_per_source, scraped_job_hashes)
            IN /\ scraped_job_hashes' = f.hashes
               /\ dup_rejected' = (dup_rejected \/ f.dup)
               /\ AdapterReturns("RemoteOK", f.jobs)
               /\ UNCHANGED fetch_errors
    /\ UNCHANGED <<ENABLE, run_no, jobs_per_source, tasks, run_status,
                   accepted_before>>
    /\ UNCHANGED runObs
    /\ UNCHANGED <<schedVars, fetchVars, confVars, healthVars, houseVars, parseVars>>

\* scrape_ycombinator_jobs after the request for the company listing: an
\* error ends the adapter with []; otherwise it visits companies[:limit].
YCombinatorListing ==
    /\ adapter["Y Combinator"] = "request"
    /\ \/ /\ fetch_errors' = fetch_errors \cup {"Y Combinator"}
          /\ AdapterFails("Y Combinator")
       \/ \E n \in 0..MaxCompanies :
            /\ IF Min(n, jobs_per_source) = 0
                 THEN AdapterReturns("Y Combinator", << >>)
                 ELSE /\ adapter' = [adapter EXCEPT !["Y Combinator"] = "company"]
                      /\ yc_left' = Min(n, jobs_per_source)
                      /\ UNCHANGED <<all_jobs, results, adapter_jobs,
                                     next_task, run_pc>>
            /\ UNCHANGED fetch_errors
    /\ UNCHANGED <<ENABLE, run_no, jobs_per_source, tasks, scraped_job_hashes,
                   run_status, accepted_before, dup_rejected>>
    /\ UNCHANGED runObs
    /\ UNCHANGED <<schedVars, fetchVars, confVars, healthVars, houseVars, parseVars>>

\* scrape_ycombinator_jobs after the request for one company's jobs: an error
\* is caught at line 351 and the loop continues; otherwise every job of the
\* answer is taken.  After the last company the adapter returns.
YCombinatorCompany ==
    /\ adapter["Y Combinator"] = "company"
    /\ \E answer \in {<<"error", << >> >>} \cup
                     {<<"jobs", d>> : d \in Responses("Y Combinator")} :
         LET f == YCombinatorJobs(answer[2], scraped_job_hashes)
             jobs == adapter_jobs \o f.jobs
         IN /\ scraped_job_hashes' = f.hashes
            /\ dup_rejected' = (dup_rejected \/ f.dup)
            /\ fetch_errors' = IF answer[1] = "error"
                                 THEN fetch_errors \cup {"Y Combinator"}
                                 ELSE fetch_errors
            /\ IF yc_left = 1
                 THEN AdapterReturns("Y Combinator", jobs)
                 ELSE /\ adapter_jobs' = jobs
                      /\ yc_left' = yc_left - 1
                      /\ UNCHANGED <<all_jobs, results, adapter, next_task,
                                     run_pc>>
    /\ UNCHANGED <<ENABLE, run_no, jobs_per_source, tasks, run_status,
                   accepted_before>>
    /\ UNCHANGED runObs
    /\ UNCHANGED <<schedVars, fetchVars, confVars, healthVars, houseVars, parseVars>>

\* results['total_scraped'] = ...; results['total_saved'] = ...
Totals(res, scraped, saved) ==
    [k \in DOMAIN res \cup {"total_scraped", "total_saved"} |->
        IF k = "total_scraped" THEN scraped
        ELSE IF k = "total_saved" THEN saved
        ELSE res[k]]

\* What the "existing job" query of _save_jobs_to_database compares.
JobKey(job) == <<job.title, job.company, job.source>>

\* The session of one _save_jobs_to_database call: saved_count, the Job rows
\* added and not rolled back (by key, in order), how many of them have been
\* flushed, and the companies created in the transaction.
NewSession == [count |-> 0, pending |-> << >>, flushed |-> 0, comps |-> {}]

\* One pass of the loop over the jobs (lines 660-711), for the job at index i
\* and on: db holds the committed rows (jobs by key, companies by name),
\* `failing` the indices whose pass raises, autoflush the session's setting.
\*   - a pass that raises is answered by db.rollback(): every row added and
\*     not yet committed is gone, saved_count stays;
\*   - a company not found is added and flushed, which flushes the rows
\*     added before;
\*   - a job found by the query (among the committed rows and the rows the
\*     query can see) is skipped; otherwise it is added and counted.
RECURSIVE SaveLoop(_, _, _, _, _, _)
SaveLoop(jobs, i, failing, db, autoflush, st) ==
    IF i > Len(jobs) THEN st
    ELSE IF i \in failing
      THEN SaveLoop(jobs, i + 1, failing, db, autoflush,
                    [st EXCEPT !.pending = << >>, !.flushed = 0, !.comps = {}])
      ELSE LET job == jobs[i]
               known == job.company \in db.companies \cup st.comps
               st1 == IF known THEN st
                      ELSE [st EXCEPT !.comps = @ \cup {job.company},
                                      !.flushed = Len(st.pending)]
               seen == IF autoflush THEN Len(st1.pending) ELSE st1.flushed
               visible == db.jobs \cup {st1.pending[k] : k \in 1..seen}
               st2 == IF JobKey(job) \in visible THEN st1
                      ELSE [st1 EXCEPT !.pending = Append(@, JobKey(job)),
                                       !.count = @ + 1]
           IN SaveLoop(jobs, i + 1, failing, db, autoflush, st2)

\* The committed rows the database can hold when the call begins: any of the
\* batch's jobs and companies, every job row with its company's row.
Databases(jobs) ==
    {db \in [jobs : SUBSET {JobKey(jobs[i]) : i \in DOMAIN jobs},
             companies : SUBSET {jobs[i].company : i \in DOMAIN jobs}] :
        \A key \in db.jobs : key[2] \in db.companies}

\* The passes of the loop that raise in one call: none, or one of them.
FailingPasses(jobs) == {{}} \cup {{i} : i \in DOMAIN jobs}

\* How the loop can leave the session when db.commit() is reached: the
\* saved_count and the number of Job rows the commit would write, over the
\* databases the call can meet, the passes that can raise and both settings
\* of the session's autoflush.
SaveOutcomes(jobs) ==
    {LET st == SaveLoop(jobs, 1, failing, db, autoflush, NewSession)
     IN [saved_count |-> st.count, added |-> Len(st.pending)] :
        db \in Databases(jobs), failing \in FailingPasses(jobs),
        autoflush \in BOOLEAN}

\* The end of scrape_all_sources (lines 642-647) with _save_jobs_to_database:
\* an empty batch returns 0 without touching the database; SessionLocal()
\* raising at line 654 ends the run by that exception; otherwise the loop
\* runs, db.commit() succeeds or raises (caught at line 714 and answered by
\* a rollback), and saved_count is returned either way.
SaveJobsToDatabase ==
    /\ run_pc = "save"
    /\ accepted_before' = accepted_before \cup Hashes(all_jobs)
    /\ IF all_jobs = << >>
         THEN /\ db_status' = "skipped"
              /\ db_persisted' = 0
              /\ RunOver("returned", Totals(results, 0, 0))
         ELSE \/ /\ db_status' = "session_failed"
                 /\ db_persisted' = 0
                 /\ RunOver("raised", << >>)
              \/ \E o \in SaveOutcomes(all_jobs),
                    commit \in {"committed", "commit_failed"} :
                   /\ db_status' = commit
                   /\ db_persisted' = IF commit = "committed"
                                        THEN o.added ELSE 0
                   /\ RunOver("returned",
                              Totals(results, Len(all_jobs), o.saved_count))
    /\ UNCHANGED <<ENABLE, run_no, scraped_job_hashes, fetch_errors,
                   dup_rejected, run_elapsed>>
    /\ UNCHANGED <<schedVars, fetchVars, confVars, healthVars, houseVars, parseVars>>

\* Time passes while the adapter being awaited waits for a request to end;
\* scrape_all_sources has no timeout around "await task" and no other way on.
RequestPending ==
    /\ run_pc = "await"
    /\ adapter[tasks[next_task]] \in {"request", "company"}
    /\ run_elapsed < MaxElapsed
    /\ run_elapsed' = run_elapsed + 1
    /\ UNCHANGED <<db_status, db_persisted>>
    /\ UNCHANGED runVars
    /\ UNCHANGED <<schedVars, fetchVars, confVars, healthVars, houseVars, parseVars>>

NextRun ==
    \/ ScrapeAllSources
    \/ NetworkAdapterBegins
    \/ SampleAdapterRuns
    \/ RemoteOKAnswers
    \/ YCombinatorListing
    \/ YCombinatorCompany
    \/ RequestPending
    \/ SaveJobsToDatabase

SpecRun == InitRun /\ [][NextRun]_vars

(***************************************************************************)
(* One adapter call on one response: what the adapter returns for what the *)
(* source answered.  For Y Combinator the response is the answer for the   *)
(* jobs of one company, the listing holding that one company.              *)
(***************************************************************************)
\* The items a network source can answer with, malformed ones among them,
\* and the list a sample generator makes.
ResponseItems(s) == JobsOf(s, 1..MaxItemId) \cup {Malformed}

AdapterInputs(s, limit) ==
    IF s \in NetworkSources
      THEN SeqsUpTo(ResponseItems(s), MaxResp)
      ELSE SampleLists(s, limit)

\* The hashes scraped_job_hashes can hold when a network adapter is called.
InputHashes == {JobHash(job) : job \in JobsOf("RemoteOK", 1..MaxItemId)}

\* The body of the adapter of source s past its flag check, called with
\* `limit`, on the response `data`: the jobs it returns and
\* scraped_job_hashes as it leaves them.
AdapterAnswer(s, limit, data, hashes) ==
    CASE s = "RemoteOK" -> RemoteOKJobs(data, limit, hashes)
      [] s = "Y Combinator" -> YCombinatorJobs(data, hashes)
      [] OTHER -> FilterNew(data, hashes)

AdapterJobs(s, limit, data, hashes) == AdapterAnswer(s, limit, data, hashes).jobs

\* The _make_request calls of one adapter call that gets its responses:
\* RemoteOK's listing; Y Combinator's company listing and the jobs of the one
\* company; none for the sample generators.
AdapterRequests(s) ==
    CASE s = "RemoteOK" -> 1
      [] s = "Y Combinator" -> 2
      [] OTHER -> 0

\* The flag check skipped: the adapter's body runs whatever the flag says.
AdapterEnabled_unchecked(s, enabled) == s \in Sources

\* "if not settings.ENABLE_<SOURCE>: return []", the first statement of
\* every adapter (lines 257, 305, 368, 390).
AdapterEnabled(s, enabled) == s \in enabled

InitParse ==
    /\ SCRAPING_ENABLED = TRUE
    /\ DefaultSchedule
    /\ SchedIdle
    /\ ENABLE \in SUBSET Sources
    /\ run_no = 0
    /\ run_pc = "idle"
    /\ jobs_per_source = 0
    /\ tasks = << >>
    /\ next_task = 0
    /\ adapter = [s \in Sources |-> "none"]
    /\ adapter_jobs = << >>
    /\ yc_left = 0
    /\ all_jobs = << >>
    /\ results = << >>
    /\ fetch_errors = {}
    /\ run_status = "none"
    /\ accepted_before = {}
    /\ dup_rejected = FALSE
    /\ db_status = "none"
    /\ db_persisted = 0
    /\ run_elapsed = 0
    /\ FetchIdle
    /\ \E s \in Sources, limit \in 1..MaxTarget :
         \E data \in AdapterInputs(s, limit), hashes \in SUBSET InputHashes :
            /\ parse_in = <<[source |-> s, limit |-> limit, data |-> data,
                             hashes |-> hashes]>>
            /\ scraped_job_hashes = hashes
    /\ parse_out = << >>

\* The adapter runs to its return: with its flag off it returns [] at once;
\* otherwise it makes its requests, each one taking a token from the limiter
\* first (how the limiter hands them out is followed under SpecFetch), and
\* builds its list, remembering the hash of every job it takes.
AdapterCall ==
    /\ parse_in # << >>
    /\ parse_out = << >>
    /\ LET call == parse_in[1]
           answer == AdapterAnswer(call.source, call.limit, call.data,
                                   scraped_job_hashes)
       IN IF AdapterEnabled(call.source, ENABLE)
            THEN /\ parse_out' = <<answer.jobs>>
                 /\ scraped_job_hashes' = answer.hashes
                 /\ calls' = calls + AdapterRequests(call.source)
                 /\ acquired' = acquired + AdapterRequests(call.source)
            ELSE /\ parse_out' = << << >> >>
                 /\ UNCHANGED <<scraped_job_hashes, calls, acquired>>
    /\ UNCHANGED parse_in
    /\ UNCHANGED <<ENABLE, run_no, run_pc, jobs_per_source, tasks, next_task,
                   adapter, adapter_jobs, yc_left, all_jobs, results,
                   fetch_errors, run_status, accepted_before, dup_rejected>>
    /\ UNCHANGED <<clock, tokens, last_update, lock_queue, wake_at, req,
                   response>>
    /\ UNCHANGED <<schedVars, confVars, healthVars, runObs, houseVars>>

NextParse == AdapterCall

SpecParse == InitParse /\ [][NextParse]_vars

(***************************************************************************)
(* One scraper's requests: RateLimiter.acquire and _make_request.          *)
(*                                                                         *)
(* The clock ticks TicksPerToken times in the time the limiter refills one *)
(* token (60 / requests_per_minute seconds); tokens are counted in         *)
(* 1/TicksPerToken of a token, so that one unit is refilled per tick and   *)
(* the arithmetic of acquire() is exact.                                   *)
(***************************************************************************)
Callers == 1..NumCallers

OneToken == TicksPerToken
BurstTokens == BurstSize * TicksPerToken

\* max_time=60 seconds, in ticks: a minute is RequestsPerMinute tokens.
MaxTimeTicks == (MaxTime * RequestsPerMinute * TicksPerToken) \div 60

IdleReq == [pc |-> "idle", log |-> << >>, result |-> "none", started |-> 0]

\* How one attempt's request can end: a 2xx response; a response with an
\* error status (raise_for_status); the session's timeout; a connection error.
Outcomes == {"ok", "status_404", "status_429", "status_500", "timeout",
             "connection_error"}

\* What one pass through the body of _make_request raises for an outcome: the
\* two except clauses turn ClientResponseError and TimeoutError into
\* JobScrapeError; any other ClientError passes through.
Raised(outcome) ==
    CASE outcome = "ok" -> "none"
      [] outcome \in {"status_404", "status_429", "status_500"} -> "JobScrapeError"
      [] outcome = "timeout" -> "JobScrapeError"
      [] outcome = "connection_error" -> "ClientError"

\* backoff.on_exception(backoff.expo, (aiohttp.ClientError,
\* asyncio.TimeoutError), ...): the exceptions it retries on.
Retried(exc) == exc \in {"ClientError", "TimeoutError"}

InitFetch ==
    /\ SCRAPING_ENABLED = TRUE
    /\ DefaultSchedule
    /\ SchedIdle
    /\ ENABLE = Sources
    /\ RunIdle
    /\ ParseIdle
    /\ clock = 0
    /\ tokens = BurstTokens
    /\ last_update = 0
    /\ lock_queue = << >>
    /\ wake_at = 0
    /\ req = [c \in Callers |-> IdleReq]
    /\ calls = 0
    /\ acquired = 0
    /\ response = [c \in Callers |-> "none"]
    /\ requests_per_minute \in {0, RequestsPerMinute}

\* time passes
Tick ==
    /\ clock < MaxClock
    /\ clock' = clock + 1
    /\ UNCHANGED <<tokens, last_update, lock_queue, wake_at, req, calls,
                   acquired>>
    /\ UNCHANGED response
    /\ UNCHANGED <<schedVars, runVars, confVars, healthVars, runObs, houseVars, parseVars>>

\* An attempt begins: "await self.rate_limiter.acquire()" queues for the lock.
AttemptBegins(c, r) ==
    /\ req' = [req EXCEPT ![c] = r]
    /\ lock_queue' = Append(lock_queue, c)

\* An adapter calls _make_request.
MakeRequest(c) ==
    /\ req[c].pc = "idle"
    /\ calls < MaxCalls
    /\ calls' = calls + 1
    /\ AttemptBegins(c, [pc |-> "lock", log |-> << >>, result |-> "none",
                         started |-> clock])
    /\ response' = [response EXCEPT ![c] = "none"]
    /\ UNCHANGED <<clock, tokens, last_update, wake_at, acquired>>
    /\ UNCHANGED <<schedVars, runVars, confVars, healthVars, runObs, houseVars, parseVars>>

\* The refill of acquire() (lines 127-131) with the bucket's cap left out.
Refilled_uncapped(tok, time_passed, rpm) ==
    tok + (IF rpm = 0 THEN 0 ELSE time_passed)

\* The refill of acquire() (lines 127-131): min(burst_size, tokens +
\* time_passed * (requests_per_minute / 60.0)).  At a positive rate one unit
\* is refilled per tick; at rate 0 nothing is.
Refilled(tok, time_passed, rpm) ==
    Min(BurstTokens, tok + (IF rpm = 0 THEN 0 ELSE time_passed))

\* RateLimiter.acquire with the lock held (lines 126-141): refill, then take a
\* token and return, or go to sleep for the rest of one token, keeping the lock.
\* wait_time divides by requests_per_minute / 60.0: at rate 0 the division
\* raises ZeroDivisionError, which leaves the lock, is not among the exceptions
\* backoff retries on, and ends the _make_request call.
LimiterEnter(c) ==
    /\ req[c].pc = "lock"
    /\ lock_queue # << >> /\ Head(lock_queue) = c
    /\ last_update' = clock
    /\ LET refilled == Refilled(tokens, clock - last_update, requests_per_minute)
       IN IF refilled >= OneToken
            THEN /\ tokens' = refilled - OneToken
                 /\ lock_queue' = Tail(lock_queue)
                 /\ acquired' = acquired + 1
                 /\ req' = [req EXCEPT ![c].pc = "delay"]
                 /\ UNCHANGED wake_at
            ELSE IF requests_per_minute = 0
              THEN /\ tokens' = refilled
                   /\ lock_queue' = Tail(lock_queue)
                   /\ req' = [req EXCEPT ![c] =
                                [@ EXCEPT !.pc = "idle",
                                          !.result = "ZeroDivisionError"]]
                   /\ UNCHANGED <<wake_at, acquired>>
              ELSE /\ tokens' = refilled
                   /\ wake_at' = clock + (OneToken - refilled)
                   /\ req' = [req EXCEPT ![c].pc = "limiter_sleep"]
                   /\ UNCHANGED <<lock_queue, acquired>>
    /\ UNCHANGED <<clock, calls>>
    /\ UNCHANGED response
    /\ UNCHANGED <<schedVars, runVars, confVars, healthVars, runObs, houseVars, parseVars>>

\* RateLimiter.acquire after its sleep (line 142): tokens = 0, and the lock is
\* released; last_update stays what it was before the sleep.
LimiterWake(c) ==
    /\ req[c].pc = "limiter_sleep"
    /\ clock >= wake_at
    /\ tokens' = 0
    /\ lock_queue' = Tail(lock_queue)
    /\ acquired' = acquired + 1
    /\ req' = [req EXCEPT ![c].pc = "delay"]
    /\ UNCHANGED <<clock, last_update, wake_at, calls>>
    /\ UNCHANGED response
    /\ UNCHANGED <<schedVars, runVars, confVars, healthVars, runObs, houseVars, parseVars>>

\* The random delay before the request (line 233) is over; the request is sent.
DelayOver(c) ==
    /\ req[c].pc = "delay"
    /\ req' = [req EXCEPT ![c].pc = "sending"]
    /\ UNCHANGED <<clock, tokens, last_update, lock_queue, wake_at, calls,
                   acquired>>
    /\ UNCHANGED response
    /\ UNCHANGED <<schedVars, runVars, confVars, healthVars, runObs, houseVars, parseVars>>

\* The request ends (lines 237-253), and backoff decides: an exception it
\* retries on, with tries and time left, leads to another attempt after a
\* wait; any other outcome ends the call.  The response is open inside the
\* "async with" block only: "return response" (line 247) leaves the block,
\* which releases the response, before the caller has it.
RequestEnds(c) ==
    /\ req[c].pc = "sending"
    /\ \E outcome \in Outcomes :
         LET log == Append(req[c].log, outcome)
             exc == Raised(outcome)
         IN /\ IF exc = "none"
                 THEN req' = [req EXCEPT ![c] =
                                [@ EXCEPT !.pc = "idle", !.log = log,
                                          !.result = "response"]]
                 ELSE IF Retried(exc) /\ Len(log) < MaxTries
                                      /\ clock - req[c].started < MaxTimeTicks
                   THEN req' = [req EXCEPT ![c] =
                                  [@ EXCEPT !.pc = "backoff", !.log = log]]
                   ELSE req' = [req EXCEPT ![c] =
                                  [@ EXCEPT !.pc = "idle", !.log = log,
                                            !.result = exc]]
            /\ response' = IF exc = "none"
                             THEN [response EXCEPT ![c] = "released"]
                             ELSE response
    /\ UNCHANGED <<clock, tokens, last_update, lock_queue, wake_at, calls,
                   acquired>>
    /\ UNCHANGED <<schedVars, runVars, confVars, healthVars, runObs, houseVars, parseVars>>

\* backoff's wait is over: _make_request is called again.
BackoffOver(c) ==
    /\ req[c].pc = "backoff"
    /\ AttemptBegins(c, [req[c] EXCEPT !.pc = "lock"])
    /\ UNCHANGED <<clock, tokens, last_update, wake_at, calls, acquired>>
    /\ UNCHANGED response
    /\ UNCHANGED <<schedVars, runVars, confVars, healthVars, runObs, houseVars, parseVars>>

\* "await response.json()" in the adapter that called _make_request (lines
\* 265, 314, 328), on the response the call returned.  Reading a released
\* response gives the body if aiohttp had all of it buffered when the
\* response was released, and raises ClientConnectionError if not.
ResponseJson(c) ==
    /\ req[c].pc = "idle"
    /\ req[c].result = "response"
    /\ response[c] = "released"
    /\ \E got \in {"read", "read_failed"} :
         response' = [response EXCEPT ![c] = got]
    /\ UNCHANGED <<clock, tokens, last_update, lock_queue, wake_at, req, calls,
                   acquired>>
    /\ UNCHANGED <<schedVars, runVars, confVars, healthVars, runObs, houseVars, parseVars>>

NextFetch ==
    \/ Tick
    \/ \E c \in Callers : MakeRequest(c)
    \/ \E c \in Callers : LimiterEnter(c)
    \/ \E c \in Callers : LimiterWake(c)
    \/ \E c \in Callers : DelayOver(c)
    \/ \E c \in Callers : RequestEnds(c)
    \/ \E c \in Callers : BackoffOver(c)
    \/ \E c \in Callers : ResponseJson(c)

SpecFetch == InitFetch /\ [][NextFetch]_vars

(***************************************************************************)
(* Claims about the scheduler, checked under Spec.                         *)
(***************************************************************************)
RunningJobs == {j \in JobIds : task[j] = "run"}

\* C1: at most one scrape run is in progress at any time, whichever trigger
\* (interval, initial, manual) started it.
ClaimC1 == Cardinality(RunningJobs) <= 1

\* C2: a scheduled trigger that fires while consecutive_failures >= 5 starts
\* no run: no job instance enters run_enhanced_job_scraper (where adapters are
\* invoked, limiter tokens acquired and jobs handed to persistence) and the
\* fetched and saved counters stay as they are.
TheoremC2 ==
    [][(consecutive_failures >= BreakerThreshold /\ total_runs' = total_runs + 1)
         => (task' = task /\ total_jobs_scraped' = total_jobs_scraped
                          /\ total_jobs_saved' = total_jobs_saved)]_vars

\* A trigger has fired with the breaker open and has been skipped.
WitnessC2 ==
    /\ consecutive_failures >= BreakerThreshold
    /\ breaker_alerts >= 1
    /\ total_runs > BreakerThreshold

\* C3: a finished run is recorded as a failure exactly when no adapter
\* returned a job and at least one adapter reported a fetch error.
ClaimC3 ==
    last_outcome.recorded # "none" =>
        ((last_outcome.recorded = "failure")
            <=> (last_outcome.scraped = 0 /\ last_outcome.errors))

\* C8: a run whose persistence step failed is recorded as a failure, also
\* when fetching succeeded.
ClaimC8 ==
    last_outcome.persist \in {"commit_failed", "session_failed"}
        => last_outcome.recorded = "failure"

\* C9: within one suspension episode the circuit-breaker alert is sent at
\* most once.
ClaimC9 == breaker_alerts <= 1

\* C10: when a manually triggered run succeeds, the scheduler is out of
\* suspension: consecutive_failures is below 5.
ClaimC10 ==
    [][(task[ManualJob] = "run" /\ task'[ManualJob] = "idle"
            /\ manual_status' = "returned")
         => consecutive_failures' < BreakerThreshold]_vars

ClaimC7 ==
    (\E s \in Sources : adapter[s] \in {"request", "company"})
        => (\A u \in Sources : adapter[u] # "created")

\* C16: a manual trigger starts a run only when scraping is enabled and the
\* circuit breaker is not suspended; otherwise it is rejected.
ClaimC16 ==
    [][(task[ManualJob] = "idle" /\ task'[ManualJob] = "run")
          => (SCRAPING_ENABLED /\ consecutive_failures < BreakerThreshold)]_vars

\* C18: a scheduled run that ends by an exception is recorded as exactly one
\* failure, and the scheduler goes on: it is still running and the job is free
\* for its next trigger.
TheoremC18 ==
    [][\A j \in ScheduledJobs :
          (task[j] = "run" /\ task'[j] = "idle"
                           /\ last_outcome'.recorded = "failure")
             => /\ consecutive_failures' = consecutive_failures + 1
                /\ scheduler_running'
                /\ last_success' = last_success]_vars

\* After one failed run a later trigger has fired and its run has failed too.
WitnessC18 ==
    /\ last_outcome.recorded = "failure"
    /\ consecutive_failures = 2
    /\ total_runs >= 2
    /\ scheduler_running
    /\ \A j \in ScheduledJobs : task[j] = "idle"

(***************************************************************************)
(* Claims about the health rule, checked under SpecHealth.                 *)
(***************************************************************************)
\* A successful run ended within 2 scheduling intervals of now.
RecentSuccessC17 ==
    last_success # None /\ now - last_success[1] <= 2

RECURSIVE SumOver(_, _)
SumOver(f, S) ==
    IF S = {} THEN 0
    ELSE LET x == CHOOSE y \in S : TRUE IN f[x] + SumOver(f, S \ {x})

IsPrefix(a, b) == Len(a) <= Len(b) /\ \A i \in DOMAIN a : a[i] = b[i]

\* What holds of a run whatever sources failed: when the loop over the tasks
\* is over every enabled source has been awaited to its end and all_jobs holds
\* as many jobs as the sources returned together; the run raises only when the
\* database session cannot be opened, and otherwise returns those counts.
IsolationInvC11 ==
    /\ run_pc = "save" =>
         /\ \A s \in ENABLE : adapter[s] = "done" /\ s \in DOMAIN results
         /\ Len(all_jobs) = SumOver(results, ENABLE)
    /\ (run_pc = "idle" /\ run_status = "raised") => db_status = "session_failed"
    /\ (run_pc = "idle" /\ run_status = "returned" /\ db_status # "none") =>
         /\ \A s \in ENABLE : s \in DOMAIN results
         /\ results["total_scraped"] = SumOver(results, ENABLE)

\* While the tasks are awaited, no step takes away a job or a count a source
\* has already returned.
IsolationStepC11 ==
    (run_pc = "await" /\ run_pc' \in {"await", "save"}) =>
        /\ IsPrefix(all_jobs, all_jobs')
        /\ \A k \in DOMAIN results :
             k \in DOMAIN results' /\ results'[k] = results[k]

\* C11: failure isolation.  A source that errors on its fetches neither stops
\* the sources after it from being awaited nor removes what the sources before
\* it returned; the run returns (and so is recorded as a success by
\* scrape_jobs_task) unless the database session itself cannot be opened.
TheoremC11 == []IsolationInvC11 /\ [][IsolationStepC11]_vars

\* A run over in which RemoteOK failed and a later source's jobs are counted.
WitnessC11 ==
    /\ run_pc = "idle"
    /\ run_status = "returned"
    /\ "RemoteOK" \in fetch_errors
    /\ "Otta" \in DOMAIN results
    /\ results["RemoteOK"] = 0
    /\ \E s \in ENABLE \ fetch_errors : results[s] >= 1
    /\ results["total_scraped"] >= 1

\* (lower(title), lower(company), source_id) of a job.
KeyC13(job) == <<Lower(job.title), Lower(job.company), job.source_id>>

\* The jobs accepted so far in the current run.
BatchC13 == all_jobs \o adapter_jobs

\* C13: within a run, of the jobs with one (lower(title), lower(company),
\* source_id) that the sources offered, exactly one was accepted: no two
\* accepted jobs share the triple, and every fingerprint in the seen-set
\* belongs to an accepted job.
TheoremC13 ==
    run_pc \in {"await", "save"} =>
        /\ \A i, j \in DOMAIN BatchC13 :
             KeyC13(BatchC13[i]) = KeyC13(BatchC13[j]) => i = j
        /\ \A h \in scraped_job_hashes :
             \E i \in DOMAIN BatchC13 : JobHash(BatchC13[i]) = h

\* RemoteOK's one job was accepted, and Y Combinator answered without error
\* with jobs that were all rejected as duplicates.
WitnessC13 ==
    /\ run_pc = "save"
    /\ jobs_per_source = 1
    /\ dup_rejected
    /\ "RemoteOK" \in DOMAIN results /\ results["RemoteOK"] = 1
    /\ "Y Combinator" \in DOMAIN results /\ results["Y Combinator"] = 0
    /\ "Y Combinator" \notin fetch_errors
    /\ ENABLE = NetworkSources

(***************************************************************************)
(* Claims about requests, checked under SpecFetch.                         *)
(***************************************************************************)
\* C5: a _make_request call whose attempts all timed out ends in an error
\* only after exactly 3 attempts.
ClaimC5 ==
    \A c \in Callers :
        (/\ req[c].result \notin {"none", "response"}
         /\ req[c].log # << >>
         /\ \A i \in DOMAIN req[c].log : req[c].log[i] = "timeout")
            => Len(req[c].log) = MaxTries

\* C12: a call that ends in an error was retried when its failures were
\* transient statuses (5xx, 429): with time left it made 3 attempts; and a
\* 4xx status other than 429 is never followed by another attempt.
ClaimC12 ==
    \A c \in Callers :
        LET log == req[c].log
        IN /\ \A i \in DOMAIN log :
                log[i] = "status_404" => i = Len(log)
           /\ (/\ req[c].result \notin {"none", "response"}
               /\ log # << >>
               /\ \A i \in DOMAIN log : log[i] \in {"status_500", "status_429"}
               /\ clock - req[c].started < MaxTimeTicks)
                  => Len(log) = MaxTries

\* C6: from the limiter's construction to now, the completed acquire() calls
\* number at most requests_per_minute x minutes elapsed + burst_size (here
\* multiplied by TicksPerToken on both sides).
ClaimC6 == acquired * TicksPerToken <= clock + BurstSize * TicksPerToken

ClaimC15 == \A c \in Callers : req[c].result # "ZeroDivisionError"

(***************************************************************************)
(* Claim about the length of a run, checked under SpecRun.                 *)
(***************************************************************************)
\* The upper bound a run would carry, in the time units of run_elapsed.
RunBound == 1

\* C19: a run has an upper bound: no run is still waiting for an adapter's
\* task once more than RunBound time units have passed in that wait; the
\* straggler is abandoned and the run goes on with what was returned.
ClaimC19 ==
    run_pc = "await" => run_elapsed <= RunBound

(***************************************************************************)
(* Claim about the settings, checked under SpecConfig.                     *)
(***************************************************************************)
\* C20: no run is scheduled or executed with an interval below 5 minutes or
\* a per-run target outside 10..1000: such settings are rejected before the
\* scheduler starts.
ClaimC20 ==
    (scheduler_running \/ \E j \in ScheduledJobs : task[j] # "idle")
        => /\ SCRAPING_INTERVAL_MINUTES >= 5
           /\ SCRAPING_MAX_JOBS_PER_RUN \in 10..1000

(***************************************************************************)
(* Claim about the status view, checked under SpecHealth.                  *)
(***************************************************************************)
\* A status answer that reports the scheduler as Suspended: it carries a
\* state, and the state is "Suspended".
ReportsSuspended(status) ==
    "state" \in DOMAIN status /\ status["state"] = "Suspended"

\* C21: while consecutive_failures >= 5 the status view reports the scheduler
\* as Suspended.
ClaimC21 ==
    consecutive_failures >= BreakerThreshold => ReportsSuspended(SchedulerStatus)

(***************************************************************************)
(* Claim about a run with no source enabled, checked under SpecRun.        *)
(***************************************************************************)
\* The metrics after scrape_jobs_task has recorded the start of a run and then
\* the outcome of the run that is over.
RecordedC22 ==
    ScrapeJobsTaskRecords(RecordRunStart(Metrics, now), run_status, results, now)

\* C22: with no source enabled (and scraping enabled) no adapter is ever
\* started, nothing is fetched or remembered and the database is not touched;
\* the run returns an empty result, and scrape_jobs_task records it as a run
\* and a success, not as a failure.
TheoremC22 ==
    (SCRAPING_ENABLED /\ ENABLE = {}) =>
        /\ run_pc = "idle"
        /\ \A s \in Sources : adapter[s] = "none"
        /\ all_jobs = << >> /\ scraped_job_hashes = {} /\ accepted_before = {}
        /\ fetch_errors = {}
        /\ db_status = "none"
        /\ run_no >= 1 =>
             /\ run_status = "returned"
             /\ results = << >>
             /\ RecordedC22.total_runs = total_runs + 1
             /\ RecordedC22.last_run = Some(now)
             /\ RecordedC22.consecutive_failures = 0
             /\ RecordedC22.last_success = Some(now)
             /\ RecordedC22.total_jobs_scraped = total_jobs_scraped
             /\ RecordedC22.total_jobs_saved = total_jobs_saved

\* Two runs with no source enabled are over.
WitnessC22 ==
    /\ SCRAPING_ENABLED /\ ENABLE = {}
    /\ run_no = 2
    /\ run_pc = "idle"
    /\ run_status = "returned"

(***************************************************************************)
(* Claim about housekeeping, checked under SpecHouse.                      *)
(***************************************************************************)
\* A step of the cleanup job, its start or its end, leaves the metrics, the
\* scraping jobs and the scheduler as they are.
CleanupStepC23 ==
    (cleanup_task' # cleanup_task) =>
        /\ Metrics' = Metrics
        /\ task' = task
        /\ scheduler_running' = scheduler_running
        /\ initial_pending' = initial_pending

\* A step of the scraping jobs leaves the cleanup job as it is.
ScrapeStepC23 ==
    (task' # task \/ Metrics' # Metrics) => cleanup_task' = cleanup_task

\* Whatever the cleanup job does or did, the interval trigger can fire and
\* the initial trigger can fire; whatever the scraping runs do or did, the
\* cleanup trigger can fire when no cleanup is running.
TriggersFreeC23 ==
    /\ (scheduler_running /\ now < MaxNow) => ENABLED IntervalTrigger
    /\ (scheduler_running /\ initial_pending /\ now = 0)
          => ENABLED InitialTrigger
    /\ (scheduler_running /\ cleanup_task = "idle") => ENABLED CleanupTrigger

\* An interval trigger that finds its job free, scraping enabled and the
\* breaker closed starts a run, whatever the state of the cleanup job.
TriggerRunsC23 ==
    (now' = now + 1 /\ task[IntervalJob] = "idle" /\ SCRAPING_ENABLED
                    /\ ~BreakerOpen(consecutive_failures))
        => task'[IntervalJob] = "run"

\* C23: housekeeping is isolated from scraping.  A cleanup, failed or not,
\* never changes the metrics and never keeps a scrape trigger from starting
\* its run, and a failed scrape never keeps the cleanup from starting.
TheoremC23 ==
    /\ []TriggersFreeC23
    /\ [][CleanupStepC23 /\ ScrapeStepC23 /\ TriggerRunsC23]_vars

\* A cleanup has failed and waits in its alert, after scrape runs that failed
\* and with a scrape run under way.
WitnessC23 ==
    /\ cleanup_task = "alert"
    /\ consecutive_failures = 2
    /\ task[IntervalJob] = "run"
    /\ last_outcome.recorded = "failure"

(***************************************************************************)
(* Claim about the notification channel, checked under Spec.               *)
(***************************************************************************)
\* C24: a failing notification never fails a run.  A scheduled run that ends
\* leaves the metrics in one of two ways, whatever became of the notification
\* it sent: as a success (last_success now, no failures in a row, the counts
\* added) or as one failure more (nothing else changed); and the scheduler
\* still runs, the job free for its next trigger.
TheoremC24 ==
    [][\A j \in ScheduledJobs :
          (task[j] = "run" /\ task'[j] = "idle") =>
             /\ scheduler_running' = scheduler_running
             /\ total_runs' = total_runs
             /\ \/ /\ last_outcome'.recorded = "success"
                   /\ last_success' = Some(now)
                   /\ consecutive_failures' = 0
                   /\ total_jobs_scraped' =
                          total_jobs_scraped + last_outcome'.scraped
                   /\ total_jobs_saved' >= total_jobs_saved
                \/ /\ last_outcome'.recorded = "failure"
                   /\ last_success' = last_success
                   /\ consecutive_failures' = consecutive_failures + 1
                   /\ total_jobs_scraped' = total_jobs_scraped
                   /\ total_jobs_saved' = total_jobs_saved]_vars

\* A run that saved a job, and so sent the success notification, has been
\* recorded as a success; the runs before it fetched nothing.
WitnessC24 ==
    /\ last_outcome.recorded = "success"
    /\ total_jobs_saved >= 1
    /\ last_outcome.scraped >= 1
    /\ total_jobs_scraped = last_outcome.scraped
    /\ consecutive_failures = 0
    /\ total_runs >= 2
    /\ last_run # None /\ last_success = last_run
    /\ \A j \in JobIds : task[j] = "idle"

(***************************************************************************)
(* Claim about the totals of a run, checked under SpecRun.                 *)
(***************************************************************************)
\* C25: a run that went through its persistence call returns as total_saved
\* the number of rows the call newly persisted, and as total_scraped the size
\* of the batch handed to it; also when saving one job failed or the commit
\* failed.
ClaimC25 ==
    [][(run_pc = "save" /\ run_pc' = "idle" /\ run_status' = "returned")
          => /\ results'["total_scraped"] = Len(all_jobs)
             /\ results'["total_saved"] = db_persisted']_vars

(***************************************************************************)
(* Claims about one adapter call, checked under SpecParse.                 *)
(***************************************************************************)
\* The items of the response the adapter is to look at: RemoteOK's first
\* `limit` items; every item of the other sources.
ConsideredC26 ==
    LET call == parse_in[1]
    IN IF call.source = "RemoteOK" THEN Take(call.data, call.limit) ELSE call.data

\* C26: in the list an enabled adapter returns, every well-formed item of the
\* response is there, or is a duplicate of a job seen before or returned;
\* a malformed item takes away nothing but itself.
ClaimC26 ==
    (parse_out # << >> /\ parse_in[1].source \in ENABLE) =>
        \A i \in DOMAIN ConsideredC26 :
            WellFormed(ConsideredC26[i]) =>
                JobHash(ConsideredC26[i])
                    \in parse_in[1].hashes \cup Hashes(parse_out[1])

\* C27: an adapter whose enable flag is off returns the empty list and
\* nothing else happens: no _make_request call begins, no acquire() returns,
\* the limiter keeps its tokens, scraped_job_hashes and the scheduler's
\* metrics stay as they were.
TheoremC27 ==
    [][(parse_out = << >> /\ parse_out' # << >>
            /\ parse_in[1].source \notin ENABLE)
          => /\ parse_out' = << << >> >>
             /\ UNCHANGED <<calls, acquired, tokens, req, scraped_job_hashes>>
             /\ UNCHANGED <<last_run, last_success, consecutive_failures,
                            total_runs, total_jobs_scraped,
                            total_jobs_saved>>]_vars

\* A disabled network adapter has returned, called on a response with a
\* job it had not seen; another source is enabled.
WitnessC27 ==
    /\ parse_out = << << >> >>
    /\ parse_in[1].source \in NetworkSources \ ENABLE
    /\ ENABLE # {}
    /\ \E i \in DOMAIN parse_in[1].data :
          /\ WellFormed(parse_in[1].data[i])
          /\ JobHash(parse_in[1].data[i]) \notin scraped_job_hashes
    /\ calls = 0
    /\ acquired = 0

\* C30: an adapter called with limit L returns at most L jobs.
ClaimC30 ==
    parse_out # << >> => Len(parse_out[1]) <= parse_in[1].limit

(***************************************************************************)
(* Claim about skipped triggers, checked under Spec.                       *)
(***************************************************************************)
\* C28: a scheduled trigger that is skipped (it starts no run: the breaker
\* is open, for which it sends the breaker alert, or scraping is disabled)
\* still counts as a run and sets last_run to its time, and leaves
\* consecutive_failures, last_success and the totals of jobs as they were.
TheoremC28 ==
    [][/\ (breaker_alerts' = breaker_alerts + 1) =>
             /\ total_runs' = total_runs + 1
             /\ task' = task
       /\ (total_runs' # total_runs /\ task' = task) =>
             /\ BreakerOpen(consecutive_failures) \/ ~SCRAPING_ENABLED
             /\ total_runs' = total_runs + 1
             /\ last_run' = Some(now')
             /\ UNCHANGED <<consecutive_failures, last_success,
                            total_jobs_scraped, total_jobs_saved>>]_vars

\* Five runs failed, none succeeded, and the sixth trigger was skipped:
\* total_runs is one more than the successes and failures recorded.
WitnessC28 ==
    /\ last_success = None
    /\ consecutive_failures = BreakerThreshold
    /\ breaker_alerts = 1
    /\ total_runs = BreakerThreshold + 1
    /\ last_run = Some(now)
    /\ total_jobs_scraped = 0
    /\ \A j \in JobIds : task[j] = "idle"

(***************************************************************************)
(* Claim about the responses _make_request returns, checked under          *)
(* SpecFetch.                                                              *)
(***************************************************************************)
\* C29: the body of a response is read only while the response is open: no
\* read begins on a response that _make_request has released.
ClaimC29 ==
    [][\A c \in Callers :
          (response'[c] \in {"read", "read_failed"}
              /\ response'[c] # response[c])
            => response[c] # "released"]_vars

====
